---- MODULE Spec2Model ----
(***************************************************************************)
(* Model of psycopg2cffi/_impl/typecasts.py: the array-literal parser      *)
(* (parse_array.cast), the typecaster registry (register_type and the      *)
(* _default_type registrations) and the interval parser (parse_interval).  *)
(*                                                                         *)
(* Python strings are sequences of one-character strings.  Python list     *)
(* objects live in a heap (heap[id] is the content of list id) so that the *)
(* aliasing between `array`, `stack` and the nested lists is kept.         *)
(***************************************************************************)
EXTENDS Integers, Sequences, FiniteSets, TLC

VARIABLES
    \* parse_array.cast
    value,          \* the literal handed to cast (or None)
    caster,         \* self._caster: the element typecaster
    pc,             \* position in cast: start, scan, token, done, raised
    i,              \* scan index (0-based, as in the source)
    heap,           \* list objects created by cast
    array,          \* id of the list elements are appended to
    stack,          \* ids of the in-progress lists
    quotes,         \* number of unescaped quotes in the current token
    escape_char,    \* next character is literal
    buf,            \* characters of the current token
    tok_start,      \* scan index at which the current token started
    arg,            \* the value last handed to the element typecaster
    result,         \* what cast returned
    err,            \* message of the exception cast raised
    nsteps,         \* iterations of the outer scan loop begun so far
    \* register_type
    string_types,   \* the global registry
    conn_typecasts, \* Connection._typecasts, per connection
    cur_typecasts,  \* Cursor._typecasts, per cursor
    init_pc,        \* index of the next module-level _default_type call
    reg_call,       \* arguments of the last register_type call by a user
    reg_err,        \* outcome of that call
    \* parse_interval
    ivalue,         \* the text handed to parse_interval
    ipc,            \* start, matched, done, raised
    im,             \* the match object
    iresult,        \* the timedelta returned
    ierr            \* the exception raised

arrayVars == <<value, caster, pc, i, heap, array, stack, quotes, escape_char,
               buf, tok_start, arg, result, err, nsteps>>
regVars == <<string_types, conn_typecasts, cur_typecasts, init_pc, reg_call,
             reg_err>>
intervalVars == <<ivalue, ipc, im, iresult, ierr>>
vars == <<arrayVars, regVars, intervalVars>>

----------------------------------------------------------------------------
(* Characters and strings *)

LB == "{"
RB == "}"
COMMA == ","
SPACE == " "
QUOTE == "\""
BSLASH == "\\"

None == <<"<None>">>

Char(s, n) == s[n + 1]

Rep(c, n) == [k \in 1..n |-> c]

RECURSIVE Flat(_)
Flat(ps) == IF ps = <<>> THEN <<>> ELSE Head(ps) \o Flat(Tail(ps))

Lower(c) ==
    CASE c = "N" -> "n"
      [] c = "U" -> "u"
      [] c = "L" -> "l"
      [] OTHER -> c

LowerStr(s) == [k \in 1..Len(s) |-> Lower(s[k])]

Digits == {"0", "1", "2", "3", "4", "5", "6", "7", "8", "9"}

DigitVal(c) ==
    CASE c = "0" -> 0 [] c = "1" -> 1 [] c = "2" -> 2 [] c = "3" -> 3
      [] c = "4" -> 4 [] c = "5" -> 5 [] c = "6" -> 6 [] c = "7" -> 7
      [] c = "8" -> 8 [] c = "9" -> 9

RECURSIVE DigitsVal(_)
DigitsVal(s) ==
    IF s = <<>> THEN 0
    ELSE 10 * DigitsVal(SubSeq(s, 1, Len(s) - 1)) + DigitVal(s[Len(s)])

AllDigits(s) == \A k \in 1..Len(s) : s[k] \in Digits

RECURSIVE Strip(_)
Strip(s) ==
    IF s = <<>> THEN s
    ELSE IF Head(s) = SPACE THEN Strip(Tail(s))
    ELSE IF s[Len(s)] = SPACE THEN Strip(SubSeq(s, 1, Len(s) - 1))
    ELSE s

\* int(text): surrounding blanks are ignored, one optional sign, then digits.
PyInt(text) ==
    LET t == Strip(text)
        signed == t /= <<>> /\ Head(t) \in {"-", "+"}
        d == IF signed THEN Tail(t) ELSE t
    IN  IF d /= <<>> /\ AllDigits(d)
        THEN [ok |-> TRUE,
              n |-> IF signed /\ Head(t) = "-" THEN 0 - DigitsVal(d)
                    ELSE DigitsVal(d)]
        ELSE [ok |-> FALSE, n |-> 0]

----------------------------------------------------------------------------
(* Element typecasters: Type.cast over parse_string and parse_integer *)

NoneItem == [k |-> "None"]
StrItem(s) == [k |-> "str", s |-> s]
IntItem(n) == [k |-> "int", n |-> n]
RefItem(id) == [k |-> "ref", id |-> id]
Unset == [k |-> "unset"]

parse_string(v) == [ok |-> TRUE, val |-> v]

parse_integer(v) ==
    IF v = NoneItem THEN [ok |-> TRUE, val |-> NoneItem]
    ELSE IF PyInt(v.s).ok THEN [ok |-> TRUE, val |-> IntItem(PyInt(v.s).n)]
    ELSE [ok |-> FALSE, val |-> NoneItem]

typecast(c, v) == IF c = "STRING" THEN parse_string(v) ELSE parse_integer(v)

----------------------------------------------------------------------------
(* parse_array.cast *)

MaxDims == 16

MalformedNoLast(s) == ~(Len(s) >= 2 /\ s[1] = LB)
Malformed(s) == ~(Len(s) >= 2 /\ s[1] = LB /\ s[Len(s)] = RB)

TooDeepOffByOne(st) == Len(st) >= MaxDims
TooDeep(st) == Len(st) > MaxDims

IsTerminatorAnyQuotes(q, c) == c = RB \/ c = COMMA
IsTerminator(q, c) == q % 2 = 0 /\ (c = RB \/ c = COMMA)

NextIndexStuck(n) == n
NextIndex(n) == n + 1

IsNullToken(str_buf) == Len(str_buf) = 4 /\ LowerStr(str_buf) = <<"n", "u", "l", "l">>

ReturnedList(st) == st[Len(st)]

value_length == Len(value) - 1

CastBegin ==
    /\ pc = "start"
    /\ IF value = None
       THEN /\ pc' = "done"
            /\ result' = NoneItem
            /\ UNCHANGED <<i, heap, array, stack, err>>
       ELSE IF Malformed(value)
       THEN /\ pc' = "raised"
            /\ err' = "malformed array"
            /\ UNCHANGED <<i, heap, array, stack, result>>
       ELSE /\ i' = 1
            /\ heap' = << <<>> >>
            /\ array' = 1
            /\ stack' = <<1>>
            /\ pc' = "scan"
            /\ UNCHANGED <<result, err>>
    /\ UNCHANGED <<value, caster, quotes, escape_char, buf, tok_start, arg,
                   nsteps>>

OpenBrace ==
    /\ pc = "scan"
    /\ i < value_length
    /\ Char(value, i) = LB
    /\ LET sub_array == Len(heap) + 1
           pushed == Append(stack, sub_array)
       IN  /\ heap' = Append([heap EXCEPT ![array] = Append(@, RefItem(sub_array))],
                             <<>>)
           /\ stack' = pushed
           /\ IF TooDeep(pushed)
              THEN /\ pc' = "raised"
                   /\ err' = "excessive array dimensions"
                   /\ UNCHANGED <<array, i>>
              ELSE /\ array' = sub_array
                   /\ i' = NextIndex(i)
                   /\ UNCHANGED <<pc, err>>
    /\ nsteps' = nsteps + 1
    /\ UNCHANGED <<value, caster, quotes, escape_char, buf, tok_start, arg,
                   result>>

CloseBrace ==
    /\ pc = "scan"
    /\ i < value_length
    /\ Char(value, i) = RB
    /\ LET popped == SubSeq(stack, 1, Len(stack) - 1)
       IN  /\ stack' = popped
           /\ IF popped = <<>>
              THEN /\ pc' = "raised"
                   /\ err' = "unbalanced braces in array"
                   /\ UNCHANGED <<array, i>>
              ELSE /\ array' = popped[Len(popped)]
                   /\ i' = NextIndex(i)
                   /\ UNCHANGED <<pc, err>>
    /\ nsteps' = nsteps + 1
    /\ UNCHANGED <<value, caster, heap, quotes, escape_char, buf, tok_start,
                   arg, result>>

Separator ==
    /\ pc = "scan"
    /\ i < value_length
    /\ Char(value, i) \in {COMMA, SPACE}
    /\ i' = NextIndex(i)
    /\ nsteps' = nsteps + 1
    /\ UNCHANGED <<value, caster, pc, heap, array, stack, quotes, escape_char,
                   buf, tok_start, arg, result, err>>

TokenBegin ==
    /\ pc = "scan"
    /\ i < value_length
    /\ Char(value, i) \notin {LB, RB, COMMA, SPACE}
    /\ quotes' = 0
    /\ escape_char' = FALSE
    /\ buf' = <<>>
    /\ tok_start' = i
    /\ pc' = "token"
    /\ nsteps' = nsteps + 1
    /\ UNCHANGED <<value, caster, i, heap, array, stack, arg, result, err>>

\* the inner loop is left by `break`
TokenBreak ==
    /\ ~escape_char
    /\ Char(value, i) /= QUOTE
    /\ Char(value, i) /= BSLASH
    /\ IsTerminator(quotes, Char(value, i))

TokenChar ==
    /\ pc = "token"
    /\ i < value_length
    /\ ~TokenBreak
    /\ IF ~escape_char
       THEN IF Char(value, i) = QUOTE
            THEN /\ quotes' = quotes + 1
                 /\ UNCHANGED <<escape_char, buf>>
            ELSE IF Char(value, i) = BSLASH
            THEN /\ escape_char' = TRUE
                 /\ UNCHANGED <<quotes, buf>>
            ELSE /\ buf' = Append(buf, Char(value, i))
                 /\ UNCHANGED <<quotes, escape_char>>
       ELSE /\ escape_char' = FALSE
            /\ buf' = Append(buf, Char(value, i))
            /\ UNCHANGED quotes
    /\ i' = NextIndex(i)
    /\ UNCHANGED <<value, caster, pc, heap, array, stack, tok_start, arg,
                   result, err, nsteps>>

TokenEnd ==
    /\ pc = "token"
    /\ (i >= value_length \/ TokenBreak)
    /\ LET str_buf == buf
           input == IF IsNullToken(str_buf) THEN NoneItem ELSE StrItem(str_buf)
           val == typecast(caster, input)
       IN  /\ arg' = input
           /\ IF val.ok
              THEN /\ heap' = [heap EXCEPT ![array] = Append(@, val.val)]
                   /\ pc' = "scan"
                   /\ UNCHANGED err
              ELSE /\ pc' = "raised"
                   /\ err' = "ValueError"
                   /\ UNCHANGED heap
    /\ UNCHANGED <<value, caster, i, array, stack, quotes, escape_char, buf,
                   tok_start, result, nsteps>>

Return ==
    /\ pc = "scan"
    /\ i >= value_length
    /\ result' = RefItem(ReturnedList(stack))
    /\ pc' = "done"
    /\ UNCHANGED <<value, caster, i, heap, array, stack, quotes, escape_char,
                   buf, tok_start, arg, err, nsteps>>

\* the Python value a list id denotes
RECURSIVE Deref(_, _)
Deref(h, id) ==
    [k |-> "list",
     items |-> [n \in 1..Len(h[id]) |->
                  IF h[id][n].k = "ref" THEN Deref(h, h[id][n].id)
                  ELSE h[id][n]]]

List(items) == [k |-> "list", items |-> items]

----------------------------------------------------------------------------
(* Type, register_type and the module-level _default_type registrations *)

Type(name, values, c) == [name |-> name, values |-> values, caster |-> c]

Range(s) == {s[k] : k \in 1..Len(s)}

EmptyMap == [x \in {} |-> x]

Connections == {"conn1", "conn2"}
Cursors == {"cur1", "cur2"}
ConnOf(cur) == "conn1"

ScopeNone == [kind |-> "None", truthy |-> FALSE]
ScopeConn(c) == [kind |-> "Connection", id |-> c, truthy |-> TRUE]
ScopeCur(c) == [kind |-> "Cursor", id |-> c, truthy |-> TRUE]
ScopeOther(truthy) == [kind |-> "other", truthy |-> truthy]

ValidScopes ==
    {ScopeNone} \cup {ScopeConn(c) : c \in Connections}
                \cup {ScopeCur(c) : c \in Cursors}
InvalidScopes == {ScopeOther(TRUE), ScopeOther(FALSE)}
Scopes == ValidScopes \cup InvalidScopes

\* the mapping register_type binds to `typecasts`
TargetCursorAsConnection(scope) ==
    IF scope.truthy
    THEN IF scope.kind = "Connection" THEN [k |-> "conn", id |-> scope.id]
         ELSE IF scope.kind = "Cursor" THEN [k |-> "conn", id |-> ConnOf(scope.id)]
         ELSE [k |-> "None"]
    ELSE [k |-> "global"]
Target(scope) ==
    IF scope.truthy
    THEN IF scope.kind = "Connection" THEN [k |-> "conn", id |-> scope.id]
         ELSE IF scope.kind = "Cursor" THEN [k |-> "cur", id |-> scope.id]
         ELSE [k |-> "None"]
    ELSE [k |-> "global"]

\* for value in type_obj.values: typecasts[value] = type_obj
SetAllKeepFirst(m, type_obj) ==
    [x \in DOMAIN m \cup Range(type_obj.values) |->
        IF x \in DOMAIN m THEN m[x] ELSE type_obj]
SetAll(m, type_obj) ==
    [x \in DOMAIN m \cup Range(type_obj.values) |->
        IF x \in Range(type_obj.values) THEN type_obj ELSE m[x]]

\* the registries and the outcome after register_type(type_obj, scope)
Registered(type_obj, scope) ==
    LET t == Target(scope)
    IN  IF t.k = "None"
        THEN [outcome |-> IF type_obj.values = <<>> THEN "ok" ELSE "TypeError",
              st |-> string_types, conn |-> conn_typecasts,
              cur |-> cur_typecasts]
        ELSE IF t.k = "global"
        THEN [outcome |-> "ok", st |-> SetAll(string_types, type_obj),
              conn |-> conn_typecasts, cur |-> cur_typecasts]
        ELSE IF t.k = "conn"
        THEN [outcome |-> "ok", st |-> string_types,
              conn |-> [conn_typecasts EXCEPT ![t.id] = SetAll(@, type_obj)],
              cur |-> cur_typecasts]
        ELSE [outcome |-> "ok", st |-> string_types, conn |-> conn_typecasts,
              cur |-> [cur_typecasts EXCEPT ![t.id] = SetAll(@, type_obj)]]

ArrayOf(name) == <<"parse_array", name>>
Scalar(name) == <<name>>

Defaults == <<
    Type("BINARY", <<17>>, Scalar("parse_binary")),
    Type("DATETIME", <<1114, 1184, 704, 1186>>, Scalar("parse_datetime")),
    Type("NUMBER", <<20, 33, 21, 701, 700, 1700>>, Scalar("parse_float")),
    Type("ROWID", <<26>>, Scalar("parse_integer")),
    Type("STRING", <<19, 18, 25, 1042, 1043>>, Scalar("parse_string")),
    Type("BOOLEAN", <<16>>, Scalar("parse_boolean")),
    Type("DATE", <<1082>>, Scalar("parse_date")),
    Type("DECIMAL", <<1700>>, Scalar("parse_decimal")),
    Type("FLOAT", <<701, 700>>, Scalar("parse_float")),
    Type("INTEGER", <<23, 21>>, Scalar("parse_integer")),
    Type("INTERVAL", <<704, 1186>>, Scalar("parse_interval")),
    Type("LONGINTEGER", <<20>>, Scalar("parse_longinteger")),
    Type("TIME", <<1083, 1266>>, Scalar("parse_time")),
    Type("UNKNOWN", <<705>>, Scalar("parse_unknown")),
    Type("BINARYARRAY", <<1001>>, ArrayOf("BINARY")),
    Type("BOOLEANARRAY", <<1000>>, ArrayOf("BOOLEAN")),
    Type("DATEARRAY", <<1182>>, ArrayOf("DATE")),
    Type("DATETIMEARRAY", <<1115, 1185>>, ArrayOf("DATETIME")),
    Type("DECIMALARRAY", <<1231>>, ArrayOf("DECIMAL")),
    Type("FLOATARRAY", <<1017, 1021, 1022>>, ArrayOf("FLOAT")),
    Type("INTEGERARRAY", <<1005, 1006, 1007>>, ArrayOf("INTEGER")),
    Type("INTERVALARRAY", <<1187>>, ArrayOf("INTERVAL")),
    Type("LONGINTEGERARRAY", <<1016>>, ArrayOf("LONGINTEGER")),
    Type("ROWIDARRAY", <<1013, 1028>>, ArrayOf("ROWID")),
    Type("STRINGARRAY", <<1002, 1003, 1009, 1014, 1015>>, ArrayOf("STRING")),
    Type("TIMEARRAY", <<1183, 1270>>, ArrayOf("TIME")) >>

\* descriptors a user registers
UserTypes == {
    Type("MYBOOL", <<16>>, Scalar("my_bool")),
    Type("MYNUM", <<16, 23>>, Scalar("my_num")),
    Type("EMPTY", <<>>, Scalar("my_empty")) }

\* one module-level `X = _default_type(name, oids, caster)`
DefaultType ==
    /\ init_pc <= Len(Defaults)
    /\ LET r == Registered(Defaults[init_pc], ScopeNone)
       IN  /\ string_types' = r.st
           /\ conn_typecasts' = r.conn
           /\ cur_typecasts' = r.cur
    /\ init_pc' = init_pc + 1
    /\ UNCHANGED <<reg_call, reg_err>>

\* register_type(type_obj, scope) called once the module is imported
RegisterType(type_obj, scope) ==
    /\ init_pc > Len(Defaults)
    /\ LET r == Registered(type_obj, scope)
       IN  /\ string_types' = r.st
           /\ conn_typecasts' = r.conn
           /\ cur_typecasts' = r.cur
           /\ reg_err' = r.outcome
    /\ reg_call' = [type_obj |-> type_obj, scope |-> scope]
    /\ UNCHANGED init_pc

Register == \E type_obj \in UserTypes, scope \in Scopes : RegisterType(type_obj, scope)

\* lookup order of the registries: cursor, then connection, then global
ResolveIn(kt, ct, st, cur, conn, type_id) ==
    IF cur /= "" /\ type_id \in DOMAIN kt[cur] THEN kt[cur][type_id]
    ELSE IF type_id \in DOMAIN ct[conn] THEN ct[conn][type_id]
    ELSE IF type_id \in DOMAIN st THEN st[type_id]
    ELSE Type("UNKNOWN", <<705>>, Scalar("parse_unknown"))

Resolve(cur, conn, type_id) ==
    ResolveIn(cur_typecasts, conn_typecasts, string_types, cur, conn, type_id)

----------------------------------------------------------------------------
(* _re_interval and parse_interval *)

Letters == {"a", "b", "c", "d", "e", "f", "g", "h", "i", "j", "k", "l", "m",
            "n", "o", "p", "q", "r", "s", "t", "u", "v", "w", "x", "y", "z"}
WordChars == Letters \cup Digits \cup {"_"}

At(s, p) == IF p >= 1 /\ p <= Len(s) THEN s[p] ELSE ""

\* end (exclusive) of the longest run of characters of class cls from p
RECURSIVE RunEnd(_, _, _)
RunEnd(s, p, cls) == IF At(s, p) \in cls THEN RunEnd(s, p + 1, cls) ELSE p

NoMatch(p) == [ok |-> FALSE, end |-> p]

\* -?\+?
SkipSign(s, p) ==
    LET a == IF At(s, p) = "-" THEN p + 1 ELSE p
    IN  IF At(s, a) = "+" THEN a + 1 ELSE a

\* (-?\+?\d+): p2 is where the digits start, q where they end
NumDigits(s, p, p2, q) ==
    IF q > p2 THEN [ok |-> TRUE, end |-> q, text |-> SubSeq(s, p, q - 1)]
    ELSE NoMatch(p)
NumSigned(s, p, p2) == NumDigits(s, p, p2, RunEnd(s, p2, Digits))
NumGroup(s, p) == NumSigned(s, p, SkipSign(s, p))

\* (?:(-?\+?\d+)\s<unit>\w+\s?)?: n is the number, r the end of the \w+ run
UnitWord(s, p, n, r) ==
    IF r > n.end + 2
    THEN [ok |-> TRUE, text |-> n.text,
          end |-> IF At(s, r) = SPACE THEN r + 1 ELSE r]
    ELSE NoMatch(p)
UnitAfterNum(s, p, unit, n) ==
    IF n.ok /\ At(s, n.end) = SPACE /\ At(s, n.end + 1) = unit
    THEN UnitWord(s, p, n, RunEnd(s, n.end + 2, WordChars))
    ELSE NoMatch(p)
UnitGroup(s, p, unit) == UnitAfterNum(s, p, unit, NumGroup(s, p))

\* (?:(-?\+?)(\d+):(\d+):(\d+)(?:\.(\d+))?)?: the sign ends at p2, the hours
\* at q1, the minutes at q2, the seconds at q3 and the fraction at q4
TimeFrac(s, p, p2, q1, q2, q3, q4) ==
    [ok |-> TRUE, end |-> IF q4 > q3 + 1 THEN q4 ELSE q3,
     sign |-> SubSeq(s, p, p2 - 1),
     hours |-> SubSeq(s, p2, q1 - 1),
     mins |-> SubSeq(s, q1 + 1, q2 - 1),
     secs |-> SubSeq(s, q2 + 1, q3 - 1),
     hasfrac |-> q4 > q3 + 1,
     frac |-> IF q4 > q3 + 1 THEN SubSeq(s, q3 + 1, q4 - 1) ELSE <<>>]
TimeSecs(s, p, p2, q1, q2, q3) ==
    IF q3 > q2 + 1
    THEN TimeFrac(s, p, p2, q1, q2, q3,
                  IF At(s, q3) = "." THEN RunEnd(s, q3 + 1, Digits) ELSE q3)
    ELSE NoMatch(p)
TimeMins(s, p, p2, q1, q2) ==
    IF q2 > q1 + 1 /\ At(s, q2) = ":"
    THEN TimeSecs(s, p, p2, q1, q2, RunEnd(s, q2 + 1, Digits))
    ELSE NoMatch(p)
TimeHours(s, p, p2, q1) ==
    IF q1 > p2 /\ At(s, q1) = ":"
    THEN TimeMins(s, p, p2, q1, RunEnd(s, q1 + 1, Digits))
    ELSE NoMatch(p)
TimeSigned(s, p, p2) == TimeHours(s, p, p2, RunEnd(s, p2, Digits))
TimeGroup(s, p) == TimeSigned(s, p, SkipSign(s, p))

\* _re_interval.match(s): every group is optional, so the pattern matches a
\* (possibly empty) prefix of every string
MatchTime(s, y, m, d) ==
    [matched |-> TRUE, years |-> y, months |-> m, days |-> d,
     time |-> TimeGroup(s, d.end)]
MatchDays(s, y, m) == MatchTime(s, y, m, UnitGroup(s, m.end, "d"))
MatchMonths(s, y) == MatchDays(s, y, UnitGroup(s, y.end, "m"))
ReMatch(s) == MatchMonths(s, UnitGroup(s, 1, "y"))

\* int((frac + ('0' * (6 - len(frac))))[:6])
Micros(frac) ==
    DigitsVal([k \in 1..6 |-> IF k <= Len(frac) THEN frac[k] ELSE "0"])

\* datetime.timedelta(days, secs, micros), normalised
Carry(days, s2, micros) ==
    [days |-> days + (s2 \div 86400), seconds |-> s2 % 86400,
     microseconds |-> micros % 1000000]
TimeDelta(days, secs, micros) ==
    Carry(days, secs + (micros \div 1000000), micros)

IntOf(g) == IF g.ok THEN PyInt(g.text) ELSE [ok |-> TRUE, n |-> 0]

Seconds(t) ==
    IF t.ok
    THEN DigitsVal(t.hours) * 3600 + DigitsVal(t.mins) * 60 + DigitsVal(t.secs)
    ELSE 0

Signed(t, n) == IF t.ok /\ t.sign = <<"-">> THEN 0 - n ELSE n

\* the body of parse_interval after the match
Converted(t, days, months, years) ==
    IF days.ok /\ months.ok /\ years.ok
    THEN [ok |-> TRUE,
          val |-> TimeDelta(days.n + months.n * 30 + years.n * 365,
                            Signed(t, Seconds(t)),
                            Signed(t, IF t.ok /\ t.hasfrac THEN Micros(t.frac)
                                      ELSE 0))]
    ELSE [ok |-> FALSE, val |-> Unset]

\* m = _re_interval.match(value)
IntervalMatch ==
    /\ ipc = "start"
    /\ IF ivalue = None
       THEN /\ ipc' = "done"
            /\ iresult' = NoneItem
            /\ UNCHANGED im
       ELSE /\ im' = ReMatch(ivalue)
            /\ ipc' = "matched"
            /\ UNCHANGED iresult
    /\ UNCHANGED <<ivalue, ierr>>

\* if not m: raise ...; otherwise the groups are converted
IntervalConvert ==
    /\ ipc = "matched"
    /\ IF ~im.matched
       THEN /\ ipc' = "raised"
            /\ ierr' = "failed to parse interval"
            /\ UNCHANGED iresult
       ELSE LET r == Converted(im.time, IntOf(im.days), IntOf(im.months),
                               IntOf(im.years))
            IN  IF r.ok
                THEN /\ ipc' = "done"
                     /\ iresult' = r.val
                     /\ UNCHANGED ierr
                ELSE /\ ipc' = "raised"
                     /\ ierr' = "ValueError"
                     /\ UNCHANGED iresult
    /\ UNCHANGED <<ivalue, im>>

----------------------------------------------------------------------------
(* Inputs *)

MaxPieces == 3
MaxNest == 18
MaxIntervalPieces == 3

Pieces == { <<LB>>, <<RB>>, <<COMMA>>, <<SPACE>>, <<QUOTE>>, <<BSLASH>>,
            <<"1">>, <<"a">>, <<"N", "U", "L", "L">>, <<"n", "u", "L", "l">> }

PieceSeqs(ps, n) == UNION {[1..k -> ps] : k \in 0..n}

Examples == {
    <<"{", "1", ",", "2", ",", "3", "}">>,
    <<"{", "{", "1", ",", "2", "}", ",", "{", "3", ",", "4", "}", "}">>,
    <<"{", "\"", "a", ",", "b", "\"", ",", "\"", "c", "\"", "}">>,
    <<"{", "\"", "a", "\\", "\"", "b", "\"", "}">>,
    <<"{", "1", ",", "N", "U", "L", "L", ",", "3", "}">>,
    <<"{", "1", ",", "2">>,
    <<"1", ",", "2", "}">>,
    <<"}">> }

DeepLiterals ==
    {Rep(LB, k) \o body \o Rep(RB, j) :
        k \in 1..MaxNest, j \in 0..MaxNest, body \in {<<>>, <<"1">>}}

Literals ==
    {Flat(p) : p \in PieceSeqs(Pieces, MaxPieces)}
    \cup {<<LB>> \o Flat(p) \o <<RB>> : p \in PieceSeqs(Pieces, MaxPieces)}
    \cup Examples \cup DeepLiterals \cup {None}

IntervalPieces == {
    <<"1", " ", "y", "e", "a", "r">>, <<"2", " ", "m", "o", "n", "s">>,
    <<"3", " ", "d", "a", "y", "s">>, <<"1", "0", ":", "0", "1", ":", "3", "9">>,
    <<".", "5">>, <<" ">>, <<"-">>, <<"+">>, <<"1">>, <<":">>, <<"x">> }

IntervalExample ==
    <<"2", " ", "y", "e", "a", "r", "s", " ", "1", " ", "m", "o", "n", " ",
      "3", " ", "d", "a", "y", "s", " ", "1", "0", ":", "0", "1", ":", "3",
      "9", ".", "1">>

IntervalTexts ==
    {Flat(p) : p \in PieceSeqs(IntervalPieces, MaxIntervalPieces)}
    \cup {IntervalExample, <<"a", "b", "c">>, None}

----------------------------------------------------------------------------
(* Specifications *)

ArrayStart(v, c) ==
    /\ value = v
    /\ caster = c
    /\ pc = "start"
    /\ i = 0
    /\ heap = <<>>
    /\ array = 0
    /\ stack = <<>>
    /\ quotes = 0
    /\ escape_char = FALSE
    /\ buf = <<>>
    /\ tok_start = 0
    /\ arg = Unset
    /\ result = Unset
    /\ err = ""
    /\ nsteps = 0

RegistryStart ==
    /\ string_types = EmptyMap
    /\ conn_typecasts = [c \in Connections |-> EmptyMap]
    /\ cur_typecasts = [c \in Cursors |-> EmptyMap]
    /\ init_pc = 1
    /\ reg_call = [type_obj |-> Type("", <<>>, <<>>), scope |-> ScopeNone]
    /\ reg_err = "none"

IntervalStart(v) ==
    /\ ivalue = v
    /\ ipc = "start"
    /\ im = Unset
    /\ iresult = Unset
    /\ ierr = ""

\* parse_array.cast on every literal
Init ==
    /\ \E v \in Literals, c \in {"STRING", "INTEGER"} : ArrayStart(v, c)
    /\ RegistryStart
    /\ IntervalStart(None)

Next ==
    \/ CastBegin /\ UNCHANGED <<regVars, intervalVars>>
    \/ OpenBrace /\ UNCHANGED <<regVars, intervalVars>>
    \/ CloseBrace /\ UNCHANGED <<regVars, intervalVars>>
    \/ Separator /\ UNCHANGED <<regVars, intervalVars>>
    \/ TokenBegin /\ UNCHANGED <<regVars, intervalVars>>
    \/ TokenChar /\ UNCHANGED <<regVars, intervalVars>>
    \/ TokenEnd /\ UNCHANGED <<regVars, intervalVars>>
    \/ Return /\ UNCHANGED <<regVars, intervalVars>>

Spec == Init /\ [][Next]_vars

\* cast runs to its end once called
FairSpec == Spec /\ WF_vars(Next)

\* the import of the module, then register_type calls
RegistryInit ==
    /\ ArrayStart(None, "STRING")
    /\ RegistryStart
    /\ IntervalStart(None)

RegistryNext ==
    \/ DefaultType /\ UNCHANGED <<arrayVars, intervalVars>>
    \/ Register /\ UNCHANGED <<arrayVars, intervalVars>>

RegistrySpec == RegistryInit /\ [][RegistryNext]_vars

\* parse_interval on every text
IntervalInit ==
    /\ ArrayStart(None, "STRING")
    /\ RegistryStart
    /\ \E v \in IntervalTexts : IntervalStart(v)

IntervalNext ==
    \/ IntervalMatch /\ UNCHANGED <<arrayVars, regVars>>
    \/ IntervalConvert /\ UNCHANGED <<arrayVars, regVars>>

IntervalSpec == IntervalInit /\ [][IntervalNext]_vars

----------------------------------------------------------------------------
(* Properties *)

Terminal == pc \in {"done", "raised"}

Excessive == "excessive array dimensions"
Unbalanced == "unbalanced braces in array"
MalformedArray == "malformed array"

LeadingBraces(s) == RunEnd(s, 1, {LB}) - 1
CountOpen(s) == Cardinality({k \in 1..Len(s) : s[k] = LB})

Ex123 == <<"{", "1", ",", "2", ",", "3", "}">>
ExNested == <<"{", "{", "1", ",", "2", "}", ",", "{", "3", ",", "4", "}", "}">>
ExQuoted == <<"{", "\"", "a", ",", "b", "\"", ",", "\"", "c", "\"", "}">>
ExNoClose == <<"{", "1", ",", "2">>
ExNoOpen == <<"1", ",", "2", "}">>

\* C1: whenever cast returns for a literal, the list returned is the
\* base-level list (the one opened by the outermost brace), never a nested
\* one; {1,2,3} gives [1,2,3] and {{1,2},{3,4}} gives [[1,2],[3,4]].
C1_ReturnsBaseList ==
    (pc = "done" /\ value /= None) =>
        /\ result = RefItem(1)
        /\ (value = Ex123 /\ caster = "INTEGER") =>
               Deref(heap, result.id) = List(<<IntItem(1), IntItem(2), IntItem(3)>>)
        /\ (value = ExNested /\ caster = "INTEGER") =>
               Deref(heap, result.id) =
                   List(<<List(<<IntItem(1), IntItem(2)>>),
                          List(<<IntItem(3), IntItem(4)>>)>>)

\* C2: while a token is accumulated, a ',' or '}' ends it only when it is
\* unescaped and the number of unescaped quotes seen is even; a backslash
\* makes exactly the next character literal (appended, not counted as quote,
\* escape or terminator); unescaped quotes and escaping backslashes are not
\* part of the text handed to the element typecaster; {"a,b","c"} against
\* the text typecaster gives ["a,b","c"].
C2_TokenStep ==
    (pc = "token" /\ i < value_length) =>
        LET c == Char(value, i)
        IN  /\ (pc' /= "token") =>
                   (~escape_char /\ quotes % 2 = 0 /\ c \in {COMMA, RB})
            /\ (~escape_char /\ quotes % 2 = 0 /\ c \in {COMMA, RB}) =>
                   (pc' /= "token" /\ i' = i)
            /\ escape_char =>
                   (/\ pc' = "token"
                    /\ buf' = Append(buf, c)
                    /\ quotes' = quotes
                    /\ ~escape_char'
                    /\ i' = i + 1)
            /\ (~escape_char /\ c = QUOTE) =>
                   (pc' = "token" /\ buf' = buf /\ quotes' = quotes + 1
                    /\ ~escape_char')
            /\ (~escape_char /\ c = BSLASH) =>
                   (pc' = "token" /\ buf' = buf /\ quotes' = quotes
                    /\ escape_char')
            /\ (~escape_char /\ c \notin {QUOTE, BSLASH, COMMA, RB}) =>
                   (pc' = "token" /\ buf' = Append(buf, c))

C2_Dispatched ==
    (pc = "token" /\ pc' /= "token") => arg' \in {NoneItem, StrItem(buf)}

C2_Example ==
    (pc = "done" /\ value = ExQuoted /\ caster = "STRING") =>
        Deref(heap, result.id) =
            List(<<StrItem(<<"a", ",", "b">>), StrItem(<<"c">>)>>)

C2_TokenAccumulation ==
    /\ [][C2_TokenStep /\ C2_Dispatched]_vars
    /\ []C2_Example

C2_Witness ==
    /\ pc = "done"
    /\ value = ExQuoted
    /\ caster = "STRING"
    /\ heap[1] = <<StrItem(<<"a", ",", "b">>), StrItem(<<"c">>)>>

\* C3: an element is handed to the element typecaster as None if and only
\* if it is the unquoted, unescaped, exactly 4-character, case-insensitive
\* token NULL; a quoted "NULL" is handed over as the 4-character text.
RawToken == SubSeq(value, tok_start + 1, i)

C3_NullOnlyWhenUnquoted ==
    [][(pc = "token" /\ pc' /= "token") =>
          (arg' = NoneItem <=>
              (Len(RawToken) = 4 /\ LowerStr(RawToken) = <<"n", "u", "l", "l">>))]_vars

\* C4: a register_type call with a valid scope changes only the mapping
\* owned by that scope, and only at the identifiers of the descriptor; so
\* after registering at a cursor, resolution through that cursor gives the
\* new descriptor while resolution through another cursor, or through a
\* connection without cursor, gives what it gave before.
AllIds == UNION {Range(Defaults[k].values) : k \in 1..Len(Defaults)}
           \cup UNION {Range(t.values) : t \in UserTypes}

OnlyAt(old, new, ids, type_obj) ==
    /\ DOMAIN new = DOMAIN old \cup ids
    /\ \A x \in DOMAIN new : new[x] = IF x \in ids THEN type_obj ELSE old[x]

C4_Step ==
    (init_pc > Len(Defaults) /\ reg_call'.scope \in ValidScopes) =>
        LET type_obj == reg_call'.type_obj
            scope == reg_call'.scope
            ids == Range(type_obj.values)
        IN  /\ reg_err' = "ok"
            /\ scope = ScopeNone =>
                   /\ OnlyAt(string_types, string_types', ids, type_obj)
                   /\ UNCHANGED <<conn_typecasts, cur_typecasts>>
            /\ scope.kind = "Connection" =>
                   /\ OnlyAt(conn_typecasts[scope.id], conn_typecasts'[scope.id],
                             ids, type_obj)
                   /\ \A c \in Connections \ {scope.id} :
                          conn_typecasts'[c] = conn_typecasts[c]
                   /\ UNCHANGED <<string_types, cur_typecasts>>
            /\ scope.kind = "Cursor" =>
                   /\ OnlyAt(cur_typecasts[scope.id], cur_typecasts'[scope.id],
                             ids, type_obj)
                   /\ \A c \in Cursors \ {scope.id} :
                          cur_typecasts'[c] = cur_typecasts[c]
                   /\ UNCHANGED <<string_types, conn_typecasts>>
                   /\ \A x \in ids :
                          ResolveIn(cur_typecasts', conn_typecasts', string_types',
                                    scope.id, ConnOf(scope.id), x) = type_obj
                   /\ \A x \in AllIds :
                          /\ \A c \in Cursors \ {scope.id} :
                                 ResolveIn(cur_typecasts', conn_typecasts',
                                           string_types', c, ConnOf(c), x)
                                     = Resolve(c, ConnOf(c), x)
                          /\ \A c \in Connections :
                                 ResolveIn(cur_typecasts', conn_typecasts',
                                           string_types', "", c, x)
                                     = Resolve("", c, x)

C4_RegisterFrame == [][C4_Step]_vars

C4_Witness ==
    /\ reg_call.scope = ScopeCur("cur1")
    /\ reg_call.type_obj.name = "MYBOOL"
    /\ reg_err = "ok"
    /\ Resolve("cur1", "conn1", 16).name = "MYBOOL"
    /\ Resolve("cur2", "conn1", 16).name = "MYNUM"
    /\ Resolve("", "conn2", 16).name = "BOOLEAN"

\* C5: nesting up to 16 levels is accepted and anything deeper is rejected:
\* "excessive array dimensions" is raised exactly when a 17th list is pushed
\* on the stack; a literal that starts with 17 opening braces raises it, a
\* literal with at most 16 opening braces never does, and while elements
\* are appended the stack holds at most 16 lists.
C5_DepthLimit ==
    /\ err = Excessive => (pc = "raised" /\ Len(stack) = MaxDims + 1)
    /\ pc \in {"scan", "token", "done"} => Len(stack) <= MaxDims
    /\ (Terminal /\ value /= None /\ ~Malformed(value)
          /\ LeadingBraces(value) >= MaxDims + 1) => err = Excessive
    /\ (Terminal /\ value = Rep(LB, MaxDims) \o Rep(RB, MaxDims)) => pc = "done"
    /\ (value /= None /\ CountOpen(value) <= MaxDims) => err /= Excessive

C5_Witness ==
    /\ pc = "raised"
    /\ err = Excessive
    /\ LeadingBraces(value) = MaxDims + 1

\* C6 (as stated): a closing brace met by the scan with no list left open
\* raises "unbalanced braces in array" and nothing is returned; the literal
\* "}" alone raises "unbalanced braces in array"; "{1,2" and "1,2}" raise
\* "malformed array".
C6_Original ==
    /\ (heap /= <<>> /\ stack = <<>>) =>
           (pc = "raised" /\ err = Unbalanced /\ result = Unset)
    /\ (Terminal /\ value = <<RB>>) => (pc = "raised" /\ err = Unbalanced)
    /\ (Terminal /\ value \in {ExNoClose, ExNoOpen}) =>
           (pc = "raised" /\ err = MalformedArray)

\* C6 (amended): a closing brace met by the scan when only the base list is
\* open raises "unbalanced braces in array" and nothing is returned; the
\* literal "}" alone, "{1,2" and "1,2}" raise "malformed array".
C6_CloseStep ==
    (pc = "scan" /\ i < value_length /\ Char(value, i) = RB /\ Len(stack) = 1) =>
        (pc' = "raised" /\ err' = Unbalanced /\ result' = Unset)

C6_Errors ==
    /\ err = Unbalanced => (pc = "raised" /\ stack = <<>> /\ result = Unset)
    /\ (Terminal /\ value \in {<<RB>>, ExNoClose, ExNoOpen}) =>
           (pc = "raised" /\ err = MalformedArray /\ result = Unset)

C6_Amended == [][C6_CloseStep]_vars /\ []C6_Errors

C6_Witness ==
    /\ pc = "raised"
    /\ err = Unbalanced
    /\ value = <<LB, "1", RB, RB>>

\* C7: register_type with a scope that is neither None, a connection nor a
\* cursor always fails, whatever the scope's truth value and whatever the
\* descriptor (also one without identifiers), and no registry is modified.
C7_InvalidScopeFails ==
    [][(init_pc > Len(Defaults) /\ reg_call'.scope \in InvalidScopes) =>
          /\ reg_err' = "TypeError"
          /\ UNCHANGED <<string_types, conn_typecasts, cur_typecasts>>]_vars

\* C8: parse_interval on a text in which none of the groups of the interval
\* grammar matches (no year, month, day or time component) fails; it never
\* returns a duration for such a text.
NoGroupMatches(s) ==
    LET m == ReMatch(s)
    IN  ~m.years.ok /\ ~m.months.ok /\ ~m.days.ok /\ ~m.time.ok

C8_UnmatchedFails ==
    (ipc \in {"done", "raised"} /\ ivalue /= None /\ NoGroupMatches(ivalue)) =>
        (ipc = "raised" /\ iresult = Unset)

\* C9: once the _default_type registrations have run in source order, the
\* later ones overwriting the earlier ones, the global registry maps every
\* identifier to one descriptor that lists it, and maps 16 to the boolean
\* parser, 23 and 21 to the integer parser, 1700 to the decimal parser, 1082
\* to the date parser, 1083 to the time parser, 1114 and 1184 to the
\* datetime parser and 705 to the unknown-type parser.
Imported == init_pc > Len(Defaults) /\ reg_err = "none"

C9_DefaultRegistry ==
    /\ \A x \in DOMAIN string_types : x \in Range(string_types[x].values)
    /\ (init_pc > 3 /\ init_pc <= 8) =>
           string_types[1700].caster = Scalar("parse_float")
    /\ Imported =>
           /\ {16, 23, 21, 1700, 1082, 1083, 1114, 1184, 705} \subseteq DOMAIN string_types
           /\ string_types[16].caster = Scalar("parse_boolean")
           /\ string_types[23].caster = Scalar("parse_integer")
           /\ string_types[21].caster = Scalar("parse_integer")
           /\ string_types[1700].caster = Scalar("parse_decimal")
           /\ string_types[1082].caster = Scalar("parse_date")
           /\ string_types[1083].caster = Scalar("parse_time")
           /\ string_types[1114].caster = Scalar("parse_datetime")
           /\ string_types[1184].caster = Scalar("parse_datetime")
           /\ string_types[705].caster = Scalar("parse_unknown")

C9_Witness ==
    /\ Imported
    /\ string_types[1700].name = "DECIMAL"
    /\ string_types[21].name = "INTEGER"

\* C10: cast terminates on every literal: every iteration of the outer scan
\* loop that does not raise advances the scan index (the brace and separator
\* branches by one, the token branch by the at least one character its inner
\* loop consumes), so that at most len(literal) iterations are begun and
\* cast ends by returning or raising.
C10_Advance ==
    /\ (pc = "scan" /\ pc' = "scan") => i' = i + 1
    /\ (pc = "token" /\ pc' = "token") => i' = i + 1
    /\ (pc = "token" /\ pc' /= "token") => (i > tok_start /\ i' = i)

C10_Bounded ==
    /\ nsteps <= Len(value)
    /\ pc \in {"scan", "token"} => (i >= 1 /\ i <= value_length)
    /\ pc = "scan" => nsteps <= i - 1
    /\ pc = "token" => nsteps <= i

C10_Terminates ==
    /\ [][C10_Advance]_vars
    /\ []C10_Bounded
    /\ <>Terminal

C10_Witness ==
    /\ pc = "done"
    /\ value = ExNested
    /\ nsteps = Len(value) - 2

====
